---- MODULE Spec2Model ----
(***************************************************************************)
(* Model of the ai-report-generator service: the pricing table, the LLM    *)
(* client (generate_once / generate_with_retry / generate) and the report  *)
(* pipeline (retrieve -> analyze -> generate -> format -> persist).        *)
(*                                                                         *)
(* Strings built with format!() are modelled as sequences of pieces, so    *)
(* "message m contains s" is "s is one of the pieces of m".                *)
(* f64 costs are modelled as integers scaled by 1_000_000 (the division by *)
(* 1_000_000.0 of calculate_cost is the change of unit).                   *)
(***************************************************************************)
EXTENDS Integers, Sequences, FiniteSets, Bags, TLC

VARIABLES
    files,          \* what each candidate pricing path holds
    PRICING,        \* pricing::PRICING, the LazyLock: None until first access
    lookup,         \* last direct calculate_cost call and its value
    input,          \* the body of the request, or the arguments of a function
                    \* called on its own
    output,         \* what that call gave
    client,         \* the LlmClient bindings built by main
    config,         \* the Config fields the report route reads
    stage,          \* position of generate_report
    stages_run,     \* stages started so far, in order
    args,           \* arguments create_report passed to generate_report
    query_result,   \* what query_indicator_data returned in this run
    data,           \* RetrieveResult
    analysis,       \* AnalysisResult
    narrative,      \* NarrativeResult
    report,         \* Report built by format_report
    db_reports,     \* rows of the reports table
    outcome,        \* what generate_report returned
    cpc,            \* position of LlmClient::generate
    cur,            \* which provider generate_with_retry is driving
    attempt,        \* loop variable of generate_with_retry
    req,            \* request given to the running generate_with_retry
    orig_req,       \* the caller's request given to generate
    last_err,       \* last_err of generate_with_retry
    delay,          \* pending tokio::time::sleep, in ms (0: none)
    raw,            \* what the provider adapter returned last
    result,         \* what generate returned
    calls,          \* log of provider invocations
    errs,           \* errors of the attempts of the running generate_with_retry
    primary_err,    \* primary_err bound by the Err arm of generate
    retry_count,    \* GEN_AI_RETRY_COUNT
    fallback_count, \* GEN_AI_FALLBACK_COUNT
    tasks,          \* the generate calls running at once on one shared client
    jobs,           \* rows of the jobs table, by id
    workers,        \* position of each worker's process_job
    deliveries,     \* bag of the <<job id, attempt>> pairs handed to a handler
    reliable,       \* whether the queue's statements always succeed
    favorites_count,\* articles.favorites_count of the one article
    favorites,      \* rows of the favorites table for that article, by user
    requests,       \* position of each favorite / unfavorite request
    served          \* number of favorite / unfavorite requests started

vars == <<files, PRICING, lookup, input, output, client, config, stage, stages_run, args, query_result, data,
          analysis, narrative, report, db_reports, outcome, cpc, cur, attempt,
          req, orig_req, last_err, delay, raw, result, calls, errs,
          primary_err, retry_count, fallback_count, tasks, jobs, workers,
          deliveries, reliable, favorites_count, favorites, requests, served>>

pipeVars == <<stage, stages_run, args, query_result, data, analysis, narrative,
              report, db_reports, outcome>>

callVars == <<cpc, cur, attempt, req, orig_req, last_err, delay, raw, result,
              calls, errs, primary_err, retry_count, fallback_count>>

jobVars == <<jobs, workers, deliveries, reliable>>

favVars == <<favorites_count, favorites, requests, served>>

otherVars == <<tasks, jobVars, favVars>>

envVars == <<files, lookup, input, output, client, config, otherVars>>

\* Option<T>: None is the empty sequence, Some(x) the one-element sequence
None == <<>>

Some(x) == <<x>>

NoProvider == "-"

Min(a, b) == IF a <= b THEN a ELSE b

RECURSIVE Pow2(_)
Pow2(n) == IF n = 0 THEN 1 ELSE 2 * Pow2(n - 1)

RECURSIVE SumSeq(_)
SumSeq(s) == IF s = <<>> THEN 0 ELSE Head(s) + SumSeq(Tail(s))

\* the one element of a singleton; { e(x) : x \in {v} } computes v once
\* for all the uses of x in e
TheOne(S) == CHOOSE v \in S : TRUE

SeqElems(s) == { s[i] : i \in 1..Len(s) }

-----------------------------------------------------------------------------
(* Bounds of the model                                                     *)

\* largest token count a provider reports, in thousands of tokens
MaxTokenSteps == 1

TokenCounts == { 1000 * k : k \in 0..MaxTokenSteps }

\* largest cost value (scaled) an adapter may leave in cost_usd
MaxAdapterCost == 1

AdapterCosts == { 777 * k : k \in 0..MaxAdapterCost }

-----------------------------------------------------------------------------
(* Pricing table                                                           *)

\* the content of a pricing.json that parses to a non-empty table
PriceTable == [ m \in {"gpt-4.1", "claude-haiku-4-5-20251001"} |->
                  IF m = "gpt-4.1" THEN [input |-> 2, output |-> 8]
                                   ELSE [input |-> 1, output |-> 5] ]

EmptyTable == [ m \in {} |-> [input |-> 0, output |-> 0] ]

\* number of candidate paths
NumPaths == 6

\* index (1-based) of the PRICING_JSON_PATH candidate
EnvPathIndex == 2

\* what reading and parsing one candidate path gives
FileOutcomes == {"unreadable", "unparsable", "empty_models", "models"}

PathStates == { f \in [1..NumPaths -> FileOutcomes \cup {"empty_path"}] :
                  \A i \in 1..NumPaths : f[i] = "empty_path" => i = EnvPathIndex }

RECURSIVE LoadFrom(_, _)
LoadFrom(fs, i) ==
    IF i > NumPaths THEN EmptyTable
    ELSE IF fs[i] = "empty_path" THEN LoadFrom(fs, i + 1)
    ELSE IF fs[i] = "models" THEN PriceTable
    ELSE LoadFrom(fs, i + 1)

LoadPricing(fs) == LoadFrom(fs, 1)

\* LazyLock: the first access runs the loader, later ones reuse the table
ForcePricing(p, fs) == IF p = None THEN Some(LoadPricing(fs)) ELSE p

\* file systems the server runs on: no source anywhere, or one source
NoSource == [i \in 1..NumPaths |-> IF i = EnvPathIndex THEN "empty_path"
                                                        ELSE "unreadable"]

ServerFiles == { NoSource, [NoSource EXCEPT ![NumPaths] = "models"] }

\* calculate_cost charging an unknown model a default price
calculate_cost_default_price(table, model, input_tokens, output_tokens) ==
    IF model \in DOMAIN table
    THEN input_tokens * table[model].input + output_tokens * table[model].output
    ELSE input_tokens + output_tokens

calculate_cost(table, model, input_tokens, output_tokens) ==
    IF model \in DOMAIN table
    THEN input_tokens * table[model].input + output_tokens * table[model].output
    ELSE 0

-----------------------------------------------------------------------------
(* Configuration and client construction                                   *)

ProviderKinds == {"anthropic", "openai", "google", "ollama"}

Configs == { [llm_provider |-> "openai",
              llm_model_capable |-> "gpt-4.1",
              llm_model_fast |-> "gpt-4.1-mini",
              fallback_provider |-> fp,
              fallback_model |-> "claude-haiku-4-5-20251001"] :
             fp \in {"anthropic", "openai", "disabled"} }

MakeClient(c) ==
    [primary_provider  |-> c.llm_provider,
     fallback          |-> c.fallback_provider \in ProviderKinds,
     fallback_provider |-> c.fallback_provider,
     fallback_model    |-> c.fallback_model]

-----------------------------------------------------------------------------
(* Provider adapters: what a call to Provider::generate can return         *)

\* A content string is a sequence of pieces: a fence of three backticks, the
\* word json, a brace, a whitespace character, a prose character, or a whole
\* member of a JSON object.
\* three backticks
FENCE == "[fence]"
JSONWORD == "json"
LB == "{"
RB == "}"
SP == " "
PROSE == "x"

\* members of a JSON object, `"name": value`, separators included
TitleA == "title:Partial Report"
TitleB == "title:Economic Overview"
TitleNumber == "title:5"
SummaryA == "executive_summary:The economy grew."
SectionsA == "sections:[GDP]"
OtherField == "note:1"

Members == {TitleA, TitleB, TitleNumber, SummaryA, SectionsA, OtherField}

\* contents of a response: an object, prose, and a closing brace set before
\* an opening one
AdapterContents == { <<LB, TitleA, RB>>, <<PROSE>>, <<RB, SP, LB>> }

Models == {"gpt-4.1", "gpt-4.1-mini"}

AdapterProviders == {"", "adapter-name"}

RawResponses == [model : Models, input_tokens : TokenCounts,
                 output_tokens : {500}, cost_usd : AdapterCosts,
                 provider : AdapterProviders, content : AdapterContents]

ProviderErrors == { <<"status 429: too many requests">>,
                    <<"500 internal server error">> }

-----------------------------------------------------------------------------
(* LLM client                                                              *)

max_retries == 3

\* generate_once leaving the provider field as the adapter set it
generate_once_keeps_provider(resp, provider_name, table) ==
    [resp EXCEPT !.cost_usd = calculate_cost(table, resp.model,
                                             resp.input_tokens, resp.output_tokens)]

\* generate_once computing the cost only when the adapter reported none
generate_once_trusts_cost(resp, provider_name, table) ==
    [resp EXCEPT !.provider = provider_name,
                 !.cost_usd = IF resp.cost_usd /= 0 THEN resp.cost_usd
                              ELSE calculate_cost(table, resp.model,
                                                  resp.input_tokens,
                                                  resp.output_tokens)]

generate_once_ok(resp, provider_name, table) ==
    [resp EXCEPT !.provider = provider_name,
                 !.cost_usd = calculate_cost(table, resp.model,
                                             resp.input_tokens, resp.output_tokens)]

\* a counter that counts every failed attempt, the first one too
counts_as_retry_always(a) == a >= 0

\* if attempt > 0: the failure of a retry is counted, the first attempt's
\* failure is not
counts_as_retry(a) == a > 0

\* a retry loop giving up one attempt early
sleeps_after_early(a) == a < max_retries - 2

\* a retry loop running one attempt more
sleeps_after_late(a) == a < max_retries

\* attempt < max_retries - 1: the loop sleeps and goes on; otherwise this was
\* the last iteration of 0..max_retries
sleeps_after(a) == a < max_retries - 1

\* a backoff that does not grow
backoff_base_ms_fixed(a) == Min(1000, 10000)

\* Duration::from_secs(1) * 2u32.pow(attempt), capped at 10 s, in ms
backoff_base_ms(a) == Min(1000 * Pow2(a), 10000)

Jitters(a) == { 0, backoff_base_ms(a) \div 4 }

\* a fallback request that keeps the caller's model
fallback_request_keeps_model(r, c) == r

\* GenerateRequest { model: self.fallback_model.clone(), ..req.clone() }
fallback_request(r, c) == [r EXCEPT !.model = c.fallback_model]

\* a loop that keeps the first error it saw
retry_error_first(es) == es[1]

\* Err(last_err...): last_err is overwritten by every failed attempt, so the
\* loop returns the error of the last one of the failures es
retry_error(es) == es[Len(es)]

\* a terminal error that leaves the cause out
terminal_error_without_cause(c, perr) ==
    <<"primary provider ", c.primary_provider, " failed after retries">>

terminal_error(c, perr) ==
    <<"primary provider ", c.primary_provider, " failed after retries: ">>
        \o perr

\* the Err(primary_err) arm of generate: TRUE when the fallback is run
runs_fallback(c) == c.fallback

\* a fallback arm that reports the primary's error when the fallback failed
fallback_failure_reports_primary(perr, fallback_err) == perr

\* the error generate returns when the fallback's generate_with_retry failed
\* with fallback_err while primary_err is bound: the tail expression hands
\* the fallback's error on as it is
fallback_failure(perr, fallback_err) == fallback_err


ProviderName(c, role) ==
    IF role = "primary" THEN c.primary_provider ELSE c.fallback_provider

CallEntry(role, r, ok) ==
    [role |-> role, name |-> ProviderName(client, role), stage |-> r.stage,
     model |-> r.model, ok |-> ok]

-----------------------------------------------------------------------------
(* Pipeline stages                                                         *)

NoDataError ==
    [kind |-> "Pipeline", msg |-> <<"No data found for requested indicators">>]

DatabaseError == [kind |-> "Database", msg |-> <<"sqlx error">>]

LlmError(e) == [kind |-> "Llm", msg |-> e]

ValidationError(m) == [kind |-> "Validation", msg |-> <<m>>]

\* the message of every response with status 500
InternalServerError == <<"Internal server error">>

\* AppError::into_response that sends the message of an Llm error
into_response_echoing_llm(err, trace_id) ==
    TheOne({ IF trace_id /= None
             THEN [status |-> p.status,
                   body |-> [error |-> p.error_message, status |-> p.status,
                             trace_id |-> trace_id[1]]]
             ELSE [status |-> p.status,
                   body |-> [error |-> p.error_message, status |-> p.status]]
             : p \in {CASE err.kind = "Validation" ->
                            [status |-> 400, error_message |-> err.msg]
                        [] err.kind = "NotFound" ->
                            [status |-> 404, error_message |-> err.msg]
                        [] err.kind = "Database" ->
                            [status |-> 500, error_message |-> InternalServerError]
                        [] err.kind = "Llm" ->
                            [status |-> 500, error_message |-> err.msg]
                        [] err.kind = "Pipeline" ->
                            [status |-> 500, error_message |-> InternalServerError]
                        [] err.kind = "Internal" ->
                            [status |-> 500, error_message |-> InternalServerError]} })

\* AppError::into_response; trace_id is what get_trace_id() gave
into_response(err, trace_id) ==
    TheOne({ IF trace_id /= None
             THEN [status |-> p.status,
                   body |-> [error |-> p.error_message, status |-> p.status,
                             trace_id |-> trace_id[1]]]
             ELSE [status |-> p.status,
                   body |-> [error |-> p.error_message, status |-> p.status]]
             : p \in {CASE err.kind = "Validation" ->
                            [status |-> 400, error_message |-> err.msg]
                        [] err.kind = "NotFound" ->
                            [status |-> 404, error_message |-> err.msg]
                        [] err.kind = "Database" ->
                            [status |-> 500, error_message |-> InternalServerError]
                        [] err.kind = "Llm" ->
                            [status |-> 500, error_message |-> InternalServerError]
                        [] err.kind = "Pipeline" ->
                            [status |-> 500, error_message |-> InternalServerError]
                        [] err.kind = "Internal" ->
                            [status |-> 500, error_message |-> InternalServerError]} })

\* results of query_indicator_data: per indicator, the number of its values
QueryRows == { <<>>, <<2, 1>> }

\* Result<Vec<IndicatorData>, sqlx::Error>
QueryResults == { [ok |-> TRUE, rows |-> q] : q \in QueryRows }
                    \cup { [ok |-> FALSE, rows |-> <<>>] }

\* retrieve without the is_empty check
retrieve_without_empty_check(q) ==
    IF ~q.ok THEN [ok |-> FALSE, err |-> DatabaseError]
    ELSE [ok |-> TRUE,
          val |-> [indicators |-> q.rows, total_data_points |-> SumSeq(q.rows)]]

\* retrieve reporting a failed query as a pipeline error
retrieve_failure_as_no_data(q) ==
    IF ~q.ok \/ Len(q.rows) = 0 THEN [ok |-> FALSE, err |-> NoDataError]
    ELSE [ok |-> TRUE,
          val |-> [indicators |-> q.rows, total_data_points |-> SumSeq(q.rows)]]

retrieve(q) ==
    IF ~q.ok THEN [ok |-> FALSE, err |-> DatabaseError]
    ELSE IF Len(q.rows) = 0 THEN [ok |-> FALSE, err |-> NoDataError]
    ELSE [ok |-> TRUE,
          val |-> [indicators |-> q.rows, total_data_points |-> SumSeq(q.rows)]]

analyze_request(model) ==
    [model |-> model, system |-> "schema-context", prompt |-> "analyze-prompt",
     temperature |-> "0.3", max_tokens |-> 2048, stage |-> "analyze"]

generate_request(model) ==
    [model |-> model, system |-> "expert-analyst", prompt |-> "report-prompt",
     temperature |-> "0.3", max_tokens |-> 4096, stage |-> "generate"]

\* the provider name a stage result carries
stage_provider(resp) == resp.provider

-----------------------------------------------------------------------------
(* Reading LLM content                                                   *)

field_of(m) ==
    CASE m \in {TitleA, TitleB, TitleNumber} -> "title"
      [] m = SummaryA -> "executive_summary"
      [] m = SectionsA -> "sections"
      [] OTHER -> "note"

value_of(m) ==
    CASE m = TitleA -> "Partial Report"
      [] m = TitleB -> "Economic Overview"
      [] m = SummaryA -> "The economy grew."
      [] m = SectionsA -> <<[heading |-> "GDP", content |-> "GDP increased."]>>
      [] OTHER -> "1"

\* the member's value has the type the narrative's field asks for
well_typed(m) == m /= TitleNumber

SetMin(S) == CHOOSE x \in S : \A y \in S : x <= y

SetMax(S) == CHOOSE x \in S : \A y \in S : y <= x

Drop(s, k) == SubSeq(s, k + 1, Len(s))

Occurrences(s, pat) ==
    { i \in 1..(Len(s) - Len(pat) + 1) : SubSeq(s, i, i + Len(pat) - 1) = pat }

\* str::find: position of the first occurrence
find(s, pat) ==
    TheOne({ IF occ = {} THEN None ELSE Some(SetMin(occ))
             : occ \in {Occurrences(s, pat)} })

\* str::rfind: position of the last occurrence
rfind(s, pat) ==
    TheOne({ IF occ = {} THEN None ELSE Some(SetMax(occ))
             : occ \in {Occurrences(s, pat)} })

RECURSIVE trim_start(_)
trim_start(s) ==
    IF s /= <<>> /\ Head(s) = SP THEN trim_start(Tail(s)) ELSE s

RECURSIVE trim_end(_)
trim_end(s) ==
    IF s /= <<>> /\ s[Len(s)] = SP THEN trim_end(SubSeq(s, 1, Len(s) - 1)) ELSE s

\* str::trim
trim(s) == trim_end(trim_start(s))

starts_with(s, piece) == s /= <<>> /\ Head(s) = piece

Returns(v) == [panic |-> FALSE, value |-> v]

Panics == [panic |-> TRUE]

\* content[start + n..start + n + end].trim() for the first `opening` at
\* start and the first fence at end after it; None when either is missing
fenced(content, opening) ==
    TheOne({ IF start = None THEN None
             ELSE TheOne({ TheOne({ IF end = None THEN None
                                    ELSE Some(trim(SubSeq(rest, 1, end[1] - 1)))
                                    : end \in {find(rest, <<FENCE>>)} })
                           : rest \in {Drop(content, start[1] + Len(opening) - 1)} })
             : start \in {find(content, opening)} })

\* content[start..=end] panics when start is beyond end + 1
extract_json(content) ==
    TheOne({ IF f.json /= None THEN Returns(f.json[1])
             ELSE IF f.plain /= None /\ starts_with(f.plain[1], LB)
             THEN Returns(f.plain[1])
             ELSE IF f.start /= None /\ f.end /= None
             THEN IF f.start[1] > f.end[1] + 1 THEN Panics
                  ELSE Returns(SubSeq(content, f.start[1], f.end[1]))
             ELSE Returns(content)
             : f \in {[json |-> fenced(content, <<FENCE, JSONWORD>>),
                       plain |-> fenced(content, <<FENCE>>),
                       start |-> find(content, <<LB>>),
                       end |-> rfind(content, <<RB>>)]} })

RECURSIVE without_whitespace(_)
without_whitespace(s) ==
    IF s = <<>> THEN <<>>
    ELSE IF Head(s) = SP THEN without_whitespace(Tail(s))
    ELSE <<Head(s)>> \o without_whitespace(Tail(s))

\* the members of a text that is one JSON object, whitespace skipped
members_of(s) == without_whitespace(SubSeq(s, 2, Len(s) - 1))

\* serde_json reads the text as one JSON object
is_json_object(s) ==
    \E t \in {trim(s)} :
       /\ Len(t) >= 2
       /\ t[1] = LB
       /\ t[Len(t)] = RB
       /\ \A i \in 2..(Len(t) - 1) : t[i] \in Members \cup {SP}

\* the value of the named field, None when the object has no such member
field(ms, name) ==
    LET hits == { i \in 1..Len(ms) : field_of(ms[i]) = name }
    IN IF hits = {} THEN None ELSE Some(value_of(ms[SetMin(hits)]))

\* a derived Deserialize rejects a field given twice
duplicate_field(ms, names) ==
    \E i, j \in 1..Len(ms) :
        i /= j /\ field_of(ms[i]) = field_of(ms[j]) /\ field_of(ms[i]) \in names

NarrativeFields == {"title", "executive_summary", "sections"}

\* serde_json::from_str::<RawNarrative>: unknown fields are skipped
from_str_RawNarrative(s) ==
    IF ~is_json_object(s) THEN None
    ELSE TheOne({ IF /\ ~duplicate_field(ms, NarrativeFields)
                     /\ \A i \in 1..Len(ms) : well_typed(ms[i])
                  THEN Some([title |-> field(ms, "title"),
                             executive_summary |-> field(ms, "executive_summary"),
                             sections |-> field(ms, "sections")])
                  ELSE None
                  : ms \in {members_of(trim(s))} })

\* serde_json::from_str::<RawAnalysis>: none of the members written here is
\* a field of RawAnalysis, so every one is skipped
from_str_RawAnalysis(s) ==
    IF is_json_object(s)
    THEN Some([trends |-> None, correlations |-> None, key_findings |-> None])
    ELSE None

\* chars of a piece
chars_of(t) ==
    CASE t = FENCE -> 3
      [] t = JSONWORD -> 4
      [] t \in {LB, RB, SP, PROSE} -> 1
      [] OTHER -> 16

\* number of chars kept of a degraded result's excerpt
ExcerptChars == 500

\* content.chars().take(n), up to the last whole piece
RECURSIVE take_chars(_, _)
take_chars(s, n) ==
    IF s = <<>> \/ chars_of(Head(s)) > n THEN <<>>
    ELSE <<Head(s)>> \o take_chars(Tail(s), n - chars_of(Head(s)))

unwrap_or(opt, default) == IF opt = None THEN default ELSE opt[1]

\* the match of parse_analysis_response on the outcome of from_str
analysis_of(parsed, content, input_tokens, output_tokens, cost_usd) ==
    IF parsed /= None
    THEN [trends |-> unwrap_or(parsed[1].trends, <<>>),
          correlations |-> unwrap_or(parsed[1].correlations, <<>>),
          key_findings |-> unwrap_or(parsed[1].key_findings, <<>>),
          input_tokens |-> input_tokens,
          output_tokens |-> output_tokens, cost_usd |-> cost_usd]
    ELSE [trends |-> <<>>, correlations |-> <<>>,
          key_findings |-> <<take_chars(content, ExcerptChars)>>,
          input_tokens |-> input_tokens,
          output_tokens |-> output_tokens, cost_usd |-> cost_usd]

parse_analysis_response(content, input_tokens, output_tokens, cost_usd) ==
    TheOne({ IF json_str.panic THEN Panics
             ELSE Returns(analysis_of(from_str_RawAnalysis(json_str.value),
                                      content, input_tokens, output_tokens,
                                      cost_usd))
             : json_str \in {extract_json(content)} })

DefaultTitle == "Economic Report"

DefaultSummary == "Analysis of economic indicators."

\* the Err(_) arm of parse_narrative_response
degraded_narrative(content, input_tokens, output_tokens, cost_usd) ==
    [title |-> DefaultTitle,
     executive_summary |-> take_chars(content, ExcerptChars),
     sections |-> <<[heading |-> "Analysis", content |-> content]>>,
     input_tokens |-> input_tokens,
     output_tokens |-> output_tokens, cost_usd |-> cost_usd]

\* the Ok(raw) arm with another title for a missing one
narrative_of_untitled(parsed, input_tokens, output_tokens, cost_usd) ==
    [title |-> unwrap_or(parsed.title, "Untitled"),
     executive_summary |-> unwrap_or(parsed.executive_summary, DefaultSummary),
     sections |-> unwrap_or(parsed.sections, <<>>),
     input_tokens |-> input_tokens,
     output_tokens |-> output_tokens, cost_usd |-> cost_usd]

\* the Ok(raw) arm of parse_narrative_response
narrative_of(parsed, input_tokens, output_tokens, cost_usd) ==
    [title |-> unwrap_or(parsed.title, DefaultTitle),
     executive_summary |-> unwrap_or(parsed.executive_summary, DefaultSummary),
     sections |-> unwrap_or(parsed.sections, <<>>),
     input_tokens |-> input_tokens,
     output_tokens |-> output_tokens, cost_usd |-> cost_usd]

parse_narrative_response(content, input_tokens, output_tokens, cost_usd) ==
    TheOne({ IF json_str.panic THEN Panics
             ELSE TheOne({ IF parsed /= None
                           THEN Returns(narrative_of(parsed[1], input_tokens,
                                                     output_tokens, cost_usd))
                           ELSE Returns(degraded_narrative(content, input_tokens,
                                                           output_tokens, cost_usd))
                           : parsed \in {from_str_RawNarrative(json_str.value)} })
             : json_str \in {extract_json(content)} })

\* the stage result with the name of the provider that served the stage
with_provider(r, resp) == r @@ [provider |-> stage_provider(resp)]

\* format_report listing only the analyze call's provider
providers_used_analysis_only(a, n) == <<a.provider>>

\* format_report pushing the narrative's provider whatever it is
providers_used_always_both(a, n) == <<a.provider, n.provider>>

providers_used_of(a, n) ==
    IF n.provider /= a.provider THEN <<a.provider, n.provider>>
                                ELSE <<a.provider>>

\* A u32 is kept as two 16-bit halves, value = hi * 2^16 + lo, so that the
\* whole range of the type, u32::MAX included, can be written down.
Limb == 2^16

ToU32(x) == [hi |-> x \div Limb, lo |-> x % Limb]

\* u32::MAX
U32Max == [hi |-> Limb - 1, lo |-> Limb - 1]

\* the sum of u32 values as a mathematical integer: hi is left unreduced
exact_sum(xs) ==
    TheOne({ [hi |-> SumSeq([i \in 1..Len(xs) |-> xs[i].hi]) + lo \div Limb,
              lo |-> lo % Limb]
             : lo \in {SumSeq([i \in 1..Len(xs) |-> xs[i].lo])} })

\* u32 `+`: overflows when the exact sum leaves the 32 bits
u32_overflows(xs) == exact_sum(xs).hi >= Limb

\* u32 `+` without overflow checks: the low 32 bits of the exact sum
u32_wrapping_sum(xs) ==
    TheOne({ [hi |-> e.hi % Limb, lo |-> e.lo] : e \in {exact_sum(xs)} })

token_terms(a, n) ==
    <<a.input_tokens, a.output_tokens, n.input_tokens, n.output_tokens>>

\* the stage result with its token counts as u32 halves
U32Tokens(r) ==
    [r EXCEPT !.input_tokens = ToU32(@), !.output_tokens = ToU32(@)]

\* a partial sum of the additions of total_tokens leaves the u32 range (the
\* terms are not negative, so some partial sum does iff the whole sum does)
total_tokens_overflows(a, n) == u32_overflows(token_terms(a, n))

\* the three u32 additions, wrapping as a build without overflow checks does
total_tokens_of(a, n) == u32_wrapping_sum(token_terms(a, n))

format_report(d, a, n, request) ==
    [indicators_used |-> request.indicators,
     total_data_points |-> d.total_data_points,
     total_tokens |-> total_tokens_of(a, n),
     total_cost_usd |-> a.cost_usd + n.cost_usd,
     providers_used |-> providers_used_of(a, n)]

\* generate_report with the two LLM stages exchanged
next_stage_swapped(s) ==
    CASE s = "retrieve" -> "generate"
      [] s = "generate" -> "analyze"
      [] s = "analyze"  -> "format"
      [] s = "format"   -> "persist"
      [] OTHER          -> "done"

\* the order of the statements of generate_report
next_stage(s) ==
    CASE s = "retrieve" -> "analyze"
      [] s = "analyze"  -> "generate"
      [] s = "generate" -> "format"
      [] s = "format"   -> "persist"
      [] OTHER          -> "done"

TheRequest == [indicators |-> <<"GDP">>, start_date |-> 1, end_date |-> 2]

\* start_date and end_date strings of a request body
DateStrings == {"2024-01-01", "2024-06-30", "2024-02-30", "01/06/2024"}

\* NaiveDate::parse_from_str(s, "%Y-%m-%d"): the date as its day of 2024,
\* None for what is no date written year-month-day
parse_from_str(d) ==
    CASE d = "2024-01-01" -> Some(1)
      [] d = "2024-06-30" -> Some(182)
      [] OTHER -> None

Bodies == [indicators : {<<>>, <<"GDP">>}, start_date : DateStrings,
           end_date : DateStrings]

\* the checks of create_report without the one of the order of the dates
validation_without_order(body) ==
    IF body.indicators = <<>>
    THEN Some(ValidationError("indicators must not be empty"))
    ELSE IF parse_from_str(body.start_date) = None
    THEN Some(ValidationError("invalid start_date format, use YYYY-MM-DD"))
    ELSE IF parse_from_str(body.end_date) = None
    THEN Some(ValidationError("invalid end_date format, use YYYY-MM-DD"))
    ELSE None

\* the checks of create_report: the error it returns, None when it goes on
validation(body) ==
    IF body.indicators = <<>>
    THEN Some(ValidationError("indicators must not be empty"))
    ELSE IF parse_from_str(body.start_date) = None
    THEN Some(ValidationError("invalid start_date format, use YYYY-MM-DD"))
    ELSE IF parse_from_str(body.end_date) = None
    THEN Some(ValidationError("invalid end_date format, use YYYY-MM-DD"))
    ELSE IF parse_from_str(body.start_date)[1] >= parse_from_str(body.end_date)[1]
    THEN Some(ValidationError("start_date must be before end_date"))
    ELSE None

\* the ReportRequest built from a body
report_request(body) ==
    [indicators |-> body.indicators,
     start_date |-> unwrap_or(parse_from_str(body.start_date), 0),
     end_date |-> unwrap_or(parse_from_str(body.end_date), 0)]

-----------------------------------------------------------------------------
(* Initial state: the server after main built the client                   *)

IdleServer ==
    /\ PRICING = None
    /\ lookup = None
    /\ client = MakeClient(config)
    /\ stage = "idle"
    /\ stages_run = <<>>
    /\ args = None
    /\ query_result = None
    /\ data = None
    /\ analysis = None
    /\ narrative = None
    /\ report = None
    /\ db_reports = {}
    /\ outcome = None
    /\ cpc = "idle"
    /\ cur = NoProvider
    /\ attempt = 0
    /\ req = None
    /\ orig_req = None
    /\ last_err = None
    /\ delay = 0
    /\ raw = None
    /\ result = None
    /\ calls = <<>>
    /\ errs = <<>>
    /\ primary_err = None
    /\ retry_count = 0
    /\ fallback_count = 0

\* no concurrent generate calls
NoTasks == tasks = <<>>

\* no job queue in use
NoJobs ==
    /\ jobs = <<>>
    /\ workers = <<>>
    /\ deliveries = EmptyBag
    /\ reliable = TRUE

\* no favorite request in flight
NoFavorites ==
    /\ favorites_count = 0
    /\ favorites = {}
    /\ requests = <<>>
    /\ served = 0

Idle ==
    /\ IdleServer
    /\ NoTasks
    /\ NoJobs
    /\ NoFavorites
    /\ input = None
    /\ output = None

Init ==
    /\ files \in ServerFiles
    /\ config \in Configs
    /\ Idle

-----------------------------------------------------------------------------
(* LlmClient::generate, one provider attempt per step                      *)

\* generate(req) is entered: generate_with_retry(primary, primary_provider, req)
StartCall(r) ==
    /\ cpc' = "attempt"
    /\ cur' = "primary"
    /\ attempt' = 0
    /\ req' = Some(r)
    /\ orig_req' = Some(r)
    /\ last_err' = None
    /\ delay' = 0
    /\ result' = None
    /\ errs' = <<>>
    /\ primary_err' = None
    /\ UNCHANGED <<raw, calls, retry_count, fallback_count>>

\* generate(req) has returned to the stage: its locals are gone
EndCall ==
    /\ cpc' = "idle"
    /\ cur' = NoProvider
    /\ attempt' = 0
    /\ req' = None
    /\ orig_req' = None
    /\ last_err' = None
    /\ raw' = None
    /\ result' = None
    /\ errs' = <<>>
    /\ primary_err' = None
    /\ UNCHANGED <<delay, calls, retry_count, fallback_count>>

\* generate_once returns Ok: generate_with_retry and generate return it
ProviderOk ==
    /\ cpc = "attempt"
    /\ PRICING' = ForcePricing(PRICING, files)
    /\ \E r \in RawResponses :
         /\ raw' = Some(r)
         /\ result' = Some([ok |-> TRUE,
                            resp |-> generate_once_ok(r, ProviderName(client, cur),
                                                      PRICING'[1])])
    /\ calls' = Append(calls, CallEntry(cur, req[1], TRUE))
    /\ cpc' = "returned"
    /\ UNCHANGED <<envVars, pipeVars, cur, attempt, req, orig_req,
                   last_err, delay, errs, primary_err, retry_count, fallback_count>>

\* generate_once returns Err: the Err arm of the retry loop, and, when the
\* loop is over, the rest of generate_with_retry and of generate
ProviderErr ==
    /\ cpc = "attempt"
    /\ \E e \in ProviderErrors, j \in Jitters(attempt) :
         /\ calls' = Append(calls, CallEntry(cur, req[1], FALSE))
         /\ retry_count' = IF counts_as_retry(attempt) THEN retry_count + 1
                                                       ELSE retry_count
         /\ IF sleeps_after(attempt)
            THEN /\ last_err' = Some(e)
                 /\ errs' = Append(errs, e)
                 /\ delay' = backoff_base_ms(attempt) + j
                 /\ cpc' = "sleep"
                 /\ UNCHANGED <<cur, attempt, req, result, primary_err,
                                fallback_count>>
            ELSE /\ delay' = 0
                 /\ IF cur = "primary"
                    THEN IF runs_fallback(client)
                         THEN /\ fallback_count' = fallback_count + 1
                              /\ primary_err' = Some(retry_error(Append(errs, e)))
                              /\ req' = Some(fallback_request(req[1], client))
                              /\ cur' = "fallback"
                              /\ attempt' = 0
                              /\ last_err' = None
                              /\ errs' = <<>>
                              /\ cpc' = "attempt"
                              /\ UNCHANGED result
                         ELSE /\ primary_err' = Some(retry_error(Append(errs, e)))
                              /\ last_err' = Some(e)
                              /\ errs' = Append(errs, e)
                              /\ result' = Some([ok |-> FALSE,
                                                 err |-> terminal_error(client,
                                                           retry_error(Append(errs, e)))])
                              /\ cpc' = "returned"
                              /\ UNCHANGED <<cur, attempt, req, fallback_count>>
                    ELSE /\ last_err' = Some(e)
                         /\ errs' = Append(errs, e)
                         /\ result' = Some([ok |-> FALSE,
                                            err |-> fallback_failure(primary_err[1],
                                                      retry_error(Append(errs, e)))])
                         /\ cpc' = "returned"
                         /\ UNCHANGED <<cur, attempt, req, primary_err,
                                        fallback_count>>
    /\ UNCHANGED <<PRICING, envVars, pipeVars, orig_req, raw>>

\* tokio::time::sleep(delay) is over: the loop goes to its next attempt
Wake ==
    /\ cpc = "sleep"
    /\ cpc' = "attempt"
    /\ attempt' = attempt + 1
    /\ delay' = 0
    /\ UNCHANGED <<PRICING, envVars, pipeVars, cur, req, orig_req, last_err,
                   raw, result, calls, errs, primary_err, retry_count,
                   fallback_count>>

-----------------------------------------------------------------------------
(* create_report and generate_report                                       *)

\* POST /api/reports: a body that fails a check is answered with the
\* error; for any other generate_report is called with
\* config.llm_model_capable as model_capable and config.llm_provider as
\* model_fast
CreateReport ==
    /\ stage = "idle"
    /\ \E body \in Bodies :
         /\ input' = Some(body)
         /\ IF validation(body) /= None
            THEN /\ outcome' = Some([ok |-> FALSE, err |-> validation(body)[1]])
                 /\ stage' = "rejected"
                 /\ UNCHANGED <<args, stages_run>>
            ELSE /\ args' = Some([model_capable |-> config.llm_model_capable,
                                  model_fast |-> config.llm_provider,
                                  request |-> report_request(body)])
                 /\ stage' = "retrieve"
                 /\ stages_run' = <<"retrieve">>
                 /\ UNCHANGED outcome
    /\ UNCHANGED <<PRICING, files, lookup, output, client, config,
                   query_result, data, analysis, narrative, report, db_reports,
                   callVars, otherVars>>

\* stage 1: retrieve(...).await?
Retrieve ==
    /\ stage = "retrieve"
    /\ \E q \in QueryResults :
         /\ query_result' = Some(q)
         /\ LET r == retrieve(q) IN
              IF r.ok
              THEN /\ data' = Some(r.val)
                   /\ stage' = next_stage("retrieve")
                   /\ stages_run' = Append(stages_run, next_stage("retrieve"))
                   /\ UNCHANGED outcome
              ELSE /\ outcome' = Some([ok |-> FALSE, err |-> r.err])
                   /\ stage' = "failed"
                   /\ UNCHANGED <<data, stages_run>>
    /\ UNCHANGED <<PRICING, envVars, args, analysis, narrative, report,
                   db_reports, callVars>>

\* stage 2, first half: analyze builds its request and calls generate
AnalyzeCall ==
    /\ stage = "analyze"
    /\ cpc = "idle"
    /\ StartCall(analyze_request(args[1].model_fast))
    /\ UNCHANGED <<PRICING, envVars, pipeVars>>

\* stage 2, second half: generate returned; map_err(..)? and parse
AnalyzeReturn ==
    /\ stage = "analyze"
    /\ cpc = "returned"
    /\ IF result[1].ok
       THEN \E resp \in {result[1].resp} :
            \E parsed \in {parse_analysis_response(resp.content, resp.input_tokens,
                                                   resp.output_tokens, resp.cost_usd)} :
               IF parsed.panic
               THEN /\ stage' = "panicked"
                    /\ UNCHANGED <<analysis, stages_run, outcome>>
               ELSE /\ analysis' = Some(with_provider(parsed.value, resp))
                    /\ stage' = next_stage("analyze")
                    /\ stages_run' = Append(stages_run, next_stage("analyze"))
                    /\ UNCHANGED outcome
       ELSE /\ outcome' = Some([ok |-> FALSE, err |-> LlmError(result[1].err)])
            /\ stage' = "failed"
            /\ UNCHANGED <<analysis, stages_run>>
    /\ EndCall
    /\ UNCHANGED <<PRICING, envVars, args, query_result, data, narrative,
                   report, db_reports>>

\* stage 3, first half
GenerateCall ==
    /\ stage = "generate"
    /\ cpc = "idle"
    /\ StartCall(generate_request(args[1].model_capable))
    /\ UNCHANGED <<PRICING, envVars, pipeVars>>

\* stage 3, second half
GenerateReturn ==
    /\ stage = "generate"
    /\ cpc = "returned"
    /\ IF result[1].ok
       THEN \E resp \in {result[1].resp} :
            \E parsed \in {parse_narrative_response(resp.content, resp.input_tokens,
                                                    resp.output_tokens, resp.cost_usd)} :
               IF parsed.panic
               THEN /\ stage' = "panicked"
                    /\ UNCHANGED <<narrative, stages_run, outcome>>
               ELSE /\ narrative' = Some(with_provider(parsed.value, resp))
                    /\ stage' = next_stage("generate")
                    /\ stages_run' = Append(stages_run, next_stage("generate"))
                    /\ UNCHANGED outcome
       ELSE /\ outcome' = Some([ok |-> FALSE, err |-> LlmError(result[1].err)])
            /\ stage' = "failed"
            /\ UNCHANGED <<narrative, stages_run>>
    /\ EndCall
    /\ UNCHANGED <<PRICING, envVars, args, query_result, data, analysis,
                   report, db_reports>>

\* stage 4: format_report(..)?
Format ==
    /\ stage = "format"
    /\ \E a \in {U32Tokens(analysis[1])}, n \in {U32Tokens(narrative[1])} :
          report' = Some(format_report(data[1], a, n, args[1].request))
    /\ stage' = next_stage("format")
    /\ stages_run' = Append(stages_run, next_stage("format"))
    /\ UNCHANGED <<PRICING, envVars, args, query_result, data, analysis,
                   narrative, db_reports, outcome, callVars>>

\* insert_report(..).await.map_err(AppError::Database)? and Ok(report)
Persist ==
    /\ stage = "persist"
    /\ \E inserted \in BOOLEAN :
         IF inserted
         THEN /\ db_reports' = db_reports \cup {report[1]}
              /\ outcome' = Some([ok |-> TRUE, val |-> report[1]])
              /\ stage' = next_stage("persist")
         ELSE /\ outcome' = Some([ok |-> FALSE, err |-> DatabaseError])
              /\ stage' = "failed"
              /\ UNCHANGED db_reports
    /\ UNCHANGED <<PRICING, envVars, stages_run, args, query_result, data,
                   analysis, narrative, report, callVars>>

Next ==
    \/ CreateReport
    \/ Retrieve
    \/ AnalyzeCall
    \/ ProviderOk
    \/ ProviderErr
    \/ Wake
    \/ AnalyzeReturn
    \/ GenerateCall
    \/ GenerateReturn
    \/ Format
    \/ Persist

Spec == Init /\ [][Next]_vars

-----------------------------------------------------------------------------
(* The pricing table on its own: any file system, direct calculate_cost    *)
(* calls                                                                   *)

LookupModels == (DOMAIN PriceTable) \cup {"gpt-4.1-mini", "nonexistent-model-xyz"}

PricingInit ==
    /\ files \in PathStates
    /\ config \in { c \in Configs : c.fallback_provider = "anthropic" }
    /\ Idle

\* calculate_cost(model, input_tokens, output_tokens); PRICING.get forces
\* the LazyLock
CalculateCost ==
    /\ PRICING' = ForcePricing(PRICING, files)
    /\ \E m \in LookupModels, i \in TokenCounts, o \in TokenCounts :
         lookup' = Some([model |-> m, input_tokens |-> i, output_tokens |-> o,
                         cost |-> calculate_cost(PRICING'[1], m, i, o)])
    /\ UNCHANGED <<files, input, output, client, config, pipeVars, callVars,
                   otherVars>>

PricingNext == CalculateCost

PricingSpec == PricingInit /\ [][PricingNext]_vars

-----------------------------------------------------------------------------
(* format_report on its own, over any pair of stage results                *)

DefaultConfig == CHOOSE c \in Configs : c.fallback_provider = "anthropic"

PureInit ==
    /\ files = NoSource
    /\ config = DefaultConfig
    /\ IdleServer
    /\ NoTasks
    /\ NoJobs
    /\ NoFavorites
    /\ output = None

\* token counts a u32 field can hold, the largest included
U32Samples == { ToU32(t) : t \in TokenCounts } \cup {U32Max}

StageResults == [input_tokens : U32Samples, output_tokens : U32Samples,
                 cost_usd : {0, 3000}, provider : {"openai", "anthropic"}]

\* overflow checks are on in a debug build and off in a release build
Builds == {"debug", "release"}

FormatInputs == [analysis : StageResults, narrative : StageResults,
                 build : Builds]

FormatInit ==
    /\ PureInit
    /\ input \in { Some(i) : i \in FormatInputs }

\* format_report(params): an overflowing addition panics under overflow
\* checks and wraps without them
format_report_call(i) ==
    IF i.build = "debug" /\ total_tokens_overflows(i.analysis, i.narrative)
    THEN [panic |-> TRUE]
    ELSE [panic |-> FALSE,
          report |-> format_report([indicators |-> <<2, 1>>, total_data_points |-> 3],
                                   i.analysis, i.narrative, TheRequest)]

FormatReportCall ==
    /\ input /= None
    /\ output = None
    /\ output' = Some(format_report_call(input[1]))
    /\ UNCHANGED <<files, PRICING, lookup, input, client, config, pipeVars,
                   callVars, otherVars>>

FormatNext == FormatReportCall

FormatSpec == FormatInit /\ [][FormatNext]_vars

-----------------------------------------------------------------------------
(* extract_json and the two parse functions on their own                   *)

MaxContentLen == 4

MaxMembers == 3

SeqsUpTo(S, n) == UNION { [1..k -> S] : k \in 0..n }

Pieces == {FENCE, JSONWORD, LB, RB, SP, PROSE}

\* a JSON object with the given members
object(ms) == <<LB>> \o ms \o <<RB>>

Forms == {"bare", "prose", "json_fence", "plain_fence"}

\* the object as the whole content, inside prose, inside a json fence after
\* a sentence, inside a plain fence
wrap(form, body) ==
    CASE form = "bare" -> body
      [] form = "prose" -> <<PROSE, SP>> \o body \o <<SP, PROSE>>
      [] form = "json_fence" ->
            <<PROSE, SP, FENCE, JSONWORD, SP>> \o body \o <<SP, FENCE, SP, PROSE>>
      [] form = "plain_fence" -> <<FENCE, SP>> \o body \o <<SP, FENCE>>

\* contents of any pieces, and objects in each of the forms
Documents ==
    { [form |-> "free", body |-> <<>>, content |-> c]
        : c \in SeqsUpTo(Pieces, MaxContentLen) }
    \cup { [form |-> f, body |-> object(ms), content |-> wrap(f, object(ms))]
              : f \in Forms, ms \in SeqsUpTo(Members, MaxMembers) }

ParseFunctions ==
    {"extract_json", "parse_analysis_response", "parse_narrative_response"}

ParseInputs ==
    { [fn |-> fn, doc |-> d, input_tokens |-> i, output_tokens |-> 500,
       cost_usd |-> 3000]
        : fn \in ParseFunctions, d \in Documents, i \in TokenCounts }

ParseInit ==
    /\ PureInit
    /\ input \in { Some(i) : i \in ParseInputs }

PureCall(fn, value) ==
    /\ input /= None
    /\ output = None
    /\ input[1].fn = fn
    /\ output' = Some(value)
    /\ UNCHANGED <<files, PRICING, lookup, input, client, config, pipeVars,
                   callVars, otherVars>>

ExtractJson ==
    PureCall("extract_json", extract_json(input[1].doc.content))

ParseAnalysis ==
    PureCall("parse_analysis_response",
             parse_analysis_response(input[1].doc.content, input[1].input_tokens,
                                     input[1].output_tokens, input[1].cost_usd))

ParseNarrative ==
    PureCall("parse_narrative_response",
             parse_narrative_response(input[1].doc.content, input[1].input_tokens,
                                      input[1].output_tokens, input[1].cost_usd))

ParseNext == ExtractJson \/ ParseAnalysis \/ ParseNarrative

ParseSpec == ParseInit /\ [][ParseNext]_vars

-----------------------------------------------------------------------------
(* truncate on its own.  A string is its UTF-8 bytes: the first byte of a  *)
(* character is written as the number of bytes of the character, each      *)
(* byte after it as 0.                                                     *)

MaxChars == 3

MaxBudget == 5

\* bytes of one character in UTF-8
CharWidths == 1..4

utf8_char(w) == <<w>> \o [i \in 1..(w - 1) |-> 0]

RECURSIVE utf8(_)
utf8(ws) == IF ws = <<>> THEN <<>> ELSE utf8_char(Head(ws)) \o utf8(Tail(ws))

\* s.char_indices(): the byte index of each character, counted from 0
char_indices(s) == { i - 1 : i \in { k \in 1..Len(s) : s[k] > 0 } }

\* the characters taken while their index is below max, collected
truncate(s, max) ==
    IF Len(s) <= max THEN s
    ELSE TheOne({ IF taken = {} THEN <<>>
                  ELSE SubSeq(s, 1, SetMax(taken) + s[SetMax(taken) + 1])
                  : taken \in {{ i \in char_indices(s) : i < max }} })

TruncateInputs ==
    { [s |-> utf8(ws), max |-> n]
        : ws \in SeqsUpTo(CharWidths, MaxChars), n \in 0..MaxBudget }

TruncateInit ==
    /\ PureInit
    /\ input \in { Some(i) : i \in TruncateInputs }

Truncate ==
    /\ input /= None
    /\ output = None
    /\ output' = Some(truncate(input[1].s, input[1].max))
    /\ UNCHANGED <<files, PRICING, lookup, input, client, config, pipeVars,
                   callVars, otherVars>>

TruncateNext == Truncate

TruncateSpec == TruncateInit /\ [][TruncateNext]_vars

-----------------------------------------------------------------------------
(* classify_error on its own.  An error message is a sequence of words and *)
(* phrases separated by blanks.                                            *)

MaxWords == 2

\* the substrings classify_error looks for
Patterns ==
    {"rate limit", "429", "timeout", "timed out", "deadline", "401", "403",
     "auth", "api key", "400", "422", "invalid", "500", "502", "503", "server",
     "connect", "dns", "network", "reset"}

\* words that hold a pattern inside them or in upper case, and words that
\* hold none
Words ==
    Patterns \cup {"authentication", "connection", "Rate Limit", "SERVER",
                   "unexpected"}

\* str::to_lowercase of a word
to_lowercase(w) ==
    CASE w = "Rate Limit" -> "rate limit"
      [] w = "SERVER" -> "server"
      [] OTHER -> w

\* the patterns found inside a lower-case word
patterns_in(w) ==
    CASE w = "authentication" -> {"auth"}
      [] w = "connection" -> {"connect"}
      [] w \in Patterns -> {w}
      [] OTHER -> {}

\* msg.contains(pat)
contains(msg, pat) == \E i \in 1..Len(msg) : pat \in patterns_in(msg[i])

\* classify_error looking for the server patterns first
classify_error_server_first(err) ==
    TheOne({
      IF \E q \in {"500", "502", "503", "server"} : contains(msg, q)
      THEN "server_error"
      ELSE IF contains(msg, "rate limit") \/ contains(msg, "429")
      THEN "rate_limit"
      ELSE IF contains(msg, "timeout") \/ contains(msg, "timed out")
              \/ contains(msg, "deadline")
      THEN "timeout"
      ELSE IF contains(msg, "401") \/ contains(msg, "403")
              \/ contains(msg, "auth") \/ contains(msg, "api key")
      THEN "auth_error"
      ELSE IF contains(msg, "400") \/ contains(msg, "422")
              \/ contains(msg, "invalid")
      THEN "invalid_request"
      ELSE IF contains(msg, "connect") \/ contains(msg, "dns")
              \/ contains(msg, "network") \/ contains(msg, "reset")
      THEN "network_error"
      ELSE "unknown_error"
      : msg \in {[i \in 1..Len(err) |-> to_lowercase(err[i])]} })

classify_error(err) ==
    TheOne({
      IF contains(msg, "rate limit") \/ contains(msg, "429")
      THEN "rate_limit"
      ELSE IF contains(msg, "timeout") \/ contains(msg, "timed out")
              \/ contains(msg, "deadline")
      THEN "timeout"
      ELSE IF contains(msg, "401") \/ contains(msg, "403")
              \/ contains(msg, "auth") \/ contains(msg, "api key")
      THEN "auth_error"
      ELSE IF contains(msg, "400") \/ contains(msg, "422")
              \/ contains(msg, "invalid")
      THEN "invalid_request"
      ELSE IF contains(msg, "500") \/ contains(msg, "502")
              \/ contains(msg, "503") \/ contains(msg, "server")
      THEN "server_error"
      ELSE IF contains(msg, "connect") \/ contains(msg, "dns")
              \/ contains(msg, "network") \/ contains(msg, "reset")
      THEN "network_error"
      ELSE "unknown_error"
      : msg \in {[i \in 1..Len(err) |-> to_lowercase(err[i])]} })

ClassifyInit ==
    /\ PureInit
    /\ input \in { Some([err |-> e]) : e \in SeqsUpTo(Words, MaxWords) }

ClassifyError ==
    /\ input /= None
    /\ output = None
    /\ output' = Some(classify_error(input[1].err))
    /\ UNCHANGED <<files, PRICING, lookup, input, client, config, pipeVars,
                   callVars, otherVars>>

ClassifyNext == ClassifyError

ClassifySpec == ClassifyInit /\ [][ClassifyNext]_vars

-----------------------------------------------------------------------------
(* AppError::into_response on its own                                      *)

ErrorKinds ==
    {"Validation", "NotFound", "Database", "Llm", "Pipeline", "Internal"}

\* messages an AppError can carry: of the handlers, of the pipeline, of a
\* provider and of the database driver
ErrorTexts ==
    ProviderErrors
    \cup { terminal_error(MakeClient(DefaultConfig), e) : e \in ProviderErrors }
    \cup { NoDataError.msg, DatabaseError.msg,
           <<"indicators must not be empty">>, <<"Report not found">>,
           InternalServerError }

AppErrors == [kind : ErrorKinds, msg : ErrorTexts]

TraceIds == {None, Some("4bf92f3577b34da6a3ce929d0e0e4736")}

IntoResponseInit ==
    /\ PureInit
    /\ input \in { Some([err |-> e, trace_id |-> t])
                      : e \in AppErrors, t \in TraceIds }

IntoResponse ==
    /\ input /= None
    /\ output = None
    /\ output' = Some(into_response(input[1].err, input[1].trace_id))
    /\ UNCHANGED <<files, PRICING, lookup, input, client, config, pipeVars,
                   callVars, otherVars>>

IntoResponseNext == IntoResponse

IntoResponseSpec == IntoResponseInit /\ [][IntoResponseNext]_vars

\* every started step of a run is eventually taken: the tasks are polled by
\* the runtime and each provider call returns
FairSpec == Spec /\ WF_vars(Next)

-----------------------------------------------------------------------------
(* Properties                                                              *)

LlmStages == {"analyze", "generate"}

\* the provider invocations made by the generate call of stage s
CallsOf(s) == SelectSeq(calls, LAMBDA c : c.stage = s)

CountRole(cs, role) == Cardinality({ i \in 1..Len(cs) : cs[i].role = role })

Returned == cpc = "returned" /\ result /= None

ReturnedOk == Returned /\ result[1].ok

ReturnedErr == Returned /\ ~result[1].ok

\* C1: within one generate call the fallback provider is invoked only after
\* three failed primary attempts; once a primary attempt succeeded the
\* fallback is never invoked and generate returns the primary's response.
C1_FallbackOnlyAfterPrimaryExhausted ==
    /\ \A s \in LlmStages :
         LET cs == CallsOf(s) IN
           /\ \A i \in 1..Len(cs) :
                cs[i].role = "fallback" =>
                  /\ i > 3
                  /\ \A k \in 1..3 : cs[k].role = "primary" /\ ~cs[k].ok
           /\ (\E i \in 1..Len(cs) : cs[i].role = "primary" /\ cs[i].ok)
                => \A i \in 1..Len(cs) : cs[i].role /= "fallback"
    /\ (Returned /\ \E i \in 1..Len(calls) :
                      /\ calls[i].stage = orig_req[1].stage
                      /\ calls[i].role = "primary"
                      /\ calls[i].ok)
         => /\ result[1].ok
            /\ result[1].resp.provider = client.primary_provider
            /\ result[1].resp.model = raw[1].model
            /\ result[1].resp.input_tokens = raw[1].input_tokens
            /\ result[1].resp.output_tokens = raw[1].output_tokens

\* the fallback provider has been invoked in the running generate call
W_C1_FallbackInvoked ==
    /\ cpc = "attempt"
    /\ cur = "fallback"
    /\ \E i \in 1..Len(calls) : calls[i].role = "fallback" /\ ~calls[i].ok

C2_Bounded ==
    \A s \in LlmStages :
      LET cs == CallsOf(s) IN
        /\ CountRole(cs, "primary") <= 3
        /\ CountRole(cs, "fallback") <= 3
        /\ ~client.fallback => CountRole(cs, "fallback") = 0
        /\ Len(cs) <= 6

\* C2: every generate call returns, after at most 3 invocations of the
\* primary and at most 3 of the fallback (none when no fallback is
\* configured), at most 6 in all.
C2_GenerateTerminates ==
    /\ []C2_Bounded
    /\ (cpc \in {"attempt", "sleep"}) ~> (cpc = "returned")

\* a generate call returned after using both budgets in full
W_C2_SixInvocations ==
    /\ Returned
    /\ Len(CallsOf(orig_req[1].stage)) = 6

\* C3: a successful response returned by generate names, in its provider
\* field, the provider that served it, whatever the adapter put there.
C3_ProviderSetByClient ==
    ReturnedOk =>
      result[1].resp.provider =
        IF calls[Len(calls)].role = "primary" THEN client.primary_provider
                                              ELSE client.fallback_provider

\* the fallback served the call and its adapter had filled the field in
W_C3_AdapterNameOverridden ==
    /\ ReturnedOk
    /\ cur = "fallback"
    /\ raw[1].provider = "adapter-name"
    /\ result[1].resp.provider = client.fallback_provider

\* C4: the returned cost_usd is the pricing-table cost of (model,
\* input_tokens, output_tokens); an adapter response differing only in
\* cost_usd gives the same returned cost.
C4_CostIndependentOfAdapter ==
    ReturnedOk =>
      /\ result[1].resp.cost_usd =
           calculate_cost(PRICING[1], raw[1].model, raw[1].input_tokens,
                          raw[1].output_tokens)
      /\ \A c \in AdapterCosts :
           generate_once_ok([raw[1] EXCEPT !.cost_usd = c],
                            ProviderName(client, cur), PRICING[1]).cost_usd
             = result[1].resp.cost_usd

\* the adapter supplied a cost and the client returned another, priced one
W_C4_AdapterCostReplaced ==
    /\ ReturnedOk
    /\ raw[1].cost_usd /= 0
    /\ result[1].resp.cost_usd > 0
    /\ result[1].resp.cost_usd /= raw[1].cost_usd

\* C5: calculate_cost gives 0 for every model id that is not a key of the
\* table, whatever the token counts; when no candidate path held a usable
\* source the table is empty and every lookup gives 0.
C5_UnknownModelCostsZero ==
    lookup /= None =>
      /\ lookup[1].model \notin DOMAIN PRICING[1] => lookup[1].cost = 0
      /\ (\A i \in 1..NumPaths : files[i] /= "models")
           => /\ DOMAIN PRICING[1] = {}
              /\ lookup[1].cost = 0

\* an unknown model looked up with tokens in a loaded, non-empty table
W_C5_UnknownModelLookedUp ==
    /\ lookup /= None
    /\ DOMAIN PRICING[1] /= {}
    /\ lookup[1].model = "nonexistent-model-xyz"
    /\ lookup[1].input_tokens > 0
    /\ lookup[1].output_tokens > 0
    /\ lookup[1].cost = 0

\* message m contains the pieces of part, in a row
Contains(m, part) ==
    \E i \in 1..(Len(m) - Len(part) + 1) :
      SubSeq(m, i, i + Len(part) - 1) = part

\* C6: with no fallback configured, when the primary failed its 3 attempts
\* generate returns an error whose message names the primary provider and
\* contains the message of the last primary failure.
C6_TerminalErrorNamesPrimary ==
    (ReturnedErr /\ ~client.fallback) =>
      /\ Len(errs) = 3
      /\ Contains(result[1].err, <<client.primary_provider>>)
      /\ Contains(result[1].err, errs[3])

\* the primary's third failure differs from its first, and no fallback
W_C6_NoFallbackExhausted ==
    /\ ReturnedErr
    /\ ~client.fallback
    /\ Len(errs) = 3
    /\ errs[1] /= errs[3]

\* C7, as claimed: whenever generate fails, with or without a fallback, the
\* returned error wraps the primary failure's message.
C7_ErrorWrapsPrimaryMessage ==
    ReturnedErr => Contains(result[1].err, primary_err[1])

\* C7, amended: without a fallback the returned error wraps the primary's
\* last message; with a fallback that also failed its 3 attempts the
\* returned error is the fallback's last error as it is.
C7_ErrorWrapsPrimaryOrIsFallbacks ==
    ReturnedErr =>
      /\ Len(errs) = 3
      /\ IF client.fallback
         THEN /\ cur = "fallback"
              /\ result[1].err = errs[3]
         ELSE /\ primary_err[1] = errs[3]
              /\ Contains(result[1].err, primary_err[1])

\* both budgets failed and the two last errors differ
W_C7_BothBudgetsFailed ==
    /\ ReturnedErr
    /\ client.fallback
    /\ cur = "fallback"
    /\ primary_err[1] /= result[1].err

\* the run where the primary fails exactly the 3 attempts of analyze, the
\* fallback then serves analyze, and the run completes
C8_Scenario ==
    /\ stage = "done"
    /\ LET cs == CallsOf("analyze") IN
         /\ Len(cs) = 4
         /\ \A k \in 1..3 : cs[k].role = "primary" /\ ~cs[k].ok
         /\ cs[4].role = "fallback" /\ cs[4].ok
    /\ \A i \in 1..Len(calls) :
         (calls[i].role = "primary" /\ ~calls[i].ok) => calls[i].stage = "analyze"

\* C8, as claimed: in that run providers_used is exactly the fallback
\* provider, without the primary, and the fallback counter is 1.
C8_OnlyFallbackListed ==
    C8_Scenario =>
      /\ report[1].providers_used = <<client.fallback_provider>>
      /\ client.primary_provider \notin SeqElems(report[1].providers_used)
      /\ fallback_count = 1

\* C8, amended: in that run providers_used lists the fallback provider
\* first and then the primary provider, which served the generate stage
\* (once only when both carry the same name), and the fallback counter is 1.
C8_FallbackThenPrimaryListed ==
    C8_Scenario =>
      /\ report[1].providers_used =
           IF client.primary_provider /= client.fallback_provider
           THEN <<client.fallback_provider, client.primary_provider>>
           ELSE <<client.fallback_provider>>
      /\ fallback_count = 1

\* the scenario with two differently named providers, report persisted
W_C8_ScenarioPersisted ==
    /\ C8_Scenario
    /\ client.primary_provider /= client.fallback_provider
    /\ db_reports /= {}
    /\ Len(report[1].providers_used) = 2

\* C9: when the query returns no indicator rows, generate_report fails with
\* the "No data found" pipeline error, no provider is invoked and no report
\* is persisted.
C9_NoDataNoLlmCall ==
    (query_result /= None /\ query_result[1].ok /\ query_result[1].rows = <<>>) =>
      /\ stage = "failed"
      /\ outcome = Some([ok |-> FALSE, err |-> NoDataError])
      /\ calls = <<>>
      /\ db_reports = {}

\* the query came back empty
W_C9_EmptyQueryResult ==
    /\ query_result /= None
    /\ query_result[1].ok
    /\ query_result[1].rows = <<>>
    /\ outcome /= None

StageOrder == <<"retrieve", "analyze", "generate", "format", "persist">>

IsPrefix(s, t) == Len(s) <= Len(t) /\ SubSeq(t, 1, Len(s)) = s

\* what the first four stages hand to the next one
Artifacts == <<data, analysis, narrative, report>>

\* C10: the stages start in the order retrieve, analyze, generate, format,
\* persist; a stage has started exactly when the one before it completed
\* successfully; no generate-stage provider call precedes the return of the
\* analyze stage's call; after a failure no later stage has started.
C10_StagesInOrder ==
    /\ IsPrefix(stages_run, StageOrder)
    /\ \A i \in 1..4 : (Artifacts[i] /= None) <=> (Len(stages_run) > i)
    /\ stage \notin {"idle", "done", "failed", "panicked", "rejected"}
         => stage = stages_run[Len(stages_run)]
    /\ \A i \in 1..Len(calls) :
         /\ calls[i].stage \in SeqElems(stages_run)
         /\ calls[i].stage = "generate" =>
              /\ analysis /= None
              /\ \A j \in 1..Len(calls) : calls[j].stage = "analyze" => j < i
    /\ (cpc /= "idle" /\ stage = "generate") => analysis /= None
    /\ db_reports /= {} <=> stage = "done"
    /\ stage = "failed" => (outcome /= None /\ ~outcome[1].ok)
    /\ stage = "done" => (Len(stages_run) = 5 /\ outcome /= None /\ outcome[1].ok)

\* the generate stage failed after analyze succeeded: format never started
W_C10_GenerateStageFailed ==
    /\ stage = "failed"
    /\ stages_run = <<"retrieve", "analyze", "generate">>
    /\ analysis /= None
    /\ narrative = None
    /\ \E i \in 1..Len(calls) : calls[i].stage = "generate"

\* C11: format_report gives total_tokens = analysis.input_tokens +
\* analysis.output_tokens + narrative.input_tokens + narrative.output_tokens
\* for all inputs.
C11_TotalTokensIsSum ==
    output /= None =>
      /\ ~output[1].panic
      /\ output[1].report.total_tokens =
           exact_sum(<<input[1].analysis.input_tokens,
                       input[1].analysis.output_tokens,
                       input[1].narrative.input_tokens,
                       input[1].narrative.output_tokens>>)

\* C12: providers_used holds each provider name at most once, the analyze
\* call's provider first, then the generate call's provider only when it
\* differs.
C12_ProvidersUsedDeduplicated ==
    (output /= None /\ ~output[1].panic) =>
      LET pu == output[1].report.providers_used
          a  == input[1].analysis.provider
          n  == input[1].narrative.provider
      IN /\ Len(pu) >= 1
         /\ pu[1] = a
         /\ \A i, j \in 1..Len(pu) : pu[i] = pu[j] => i = j
         /\ SeqElems(pu) = {a, n}
         /\ n /= a => pu = <<a, n>>

\* both cases of one provider and of two providers formatted
W_C12_TwoProvidersFormatted ==
    /\ output /= None
    /\ ~output[1].panic
    /\ input[1].analysis.provider = "anthropic"
    /\ input[1].narrative.provider = "openai"
    /\ output[1].report.providers_used = <<"anthropic", "openai">>

\* C13: extract_json, parse_analysis_response and parse_narrative_response
\* return a result, structured or degraded, for every content string: none
\* of them panics.
C13_ParsingNeverPanics ==
    output /= None => ~output[1].panic

\* a brace pair: an opening brace with a closing brace after it
has_brace_pair(c) ==
    \E i, j \in 1..Len(c) : i < j /\ c[i] = LB /\ c[j] = RB

\* C14: extract_json gives the object itself for an object inside prose,
\* inside a json fence or inside a plain fence, and gives the content
\* unchanged when it holds no fence and no brace pair.
C14_ExtractJsonForms ==
    (output /= None /\ input[1].fn = "extract_json") =>
      LET d == input[1].doc
      IN /\ d.form \in Forms => output[1] = Returns(d.body)
         /\ (d.form = "free" /\ FENCE \notin SeqElems(d.content)
               /\ ~has_brace_pair(d.content))
              => output[1] = Returns(d.content)

has_field(ms, name) == \E i \in 1..Len(ms) : field_of(ms[i]) = name

the_field(ms, name) ==
    value_of(ms[CHOOSE i \in 1..Len(ms) : field_of(ms[i]) = name])

\* the content is one JSON object that gives each narrative field at most
\* once, with a value of the field's type
narrative_object(d) ==
    /\ d.form = "bare"
    /\ LET ms == SubSeq(d.body, 2, Len(d.body) - 1)
       IN /\ \A i \in 1..Len(ms) : well_typed(ms[i])
          /\ \A i, j \in 1..Len(ms) :
                (field_of(ms[i]) = field_of(ms[j])
                   /\ field_of(ms[i]) \in NarrativeFields) => i = j

\* C20: for a JSON object with any subset of title, executive_summary and
\* sections, parse_narrative_response keeps each field that is present, puts
\* the default in place of each absent one, does not fail, and passes the
\* token counts and the cost through.
C20_NarrativeDefaults ==
    (output /= None /\ input[1].fn = "parse_narrative_response"
       /\ narrative_object(input[1].doc)) =>
      LET ms == SubSeq(input[1].doc.body, 2, Len(input[1].doc.body) - 1)
      IN output[1] = Returns(
           [title |-> IF has_field(ms, "title") THEN the_field(ms, "title")
                      ELSE "Economic Report",
            executive_summary |->
                IF has_field(ms, "executive_summary")
                THEN the_field(ms, "executive_summary")
                ELSE "Analysis of economic indicators.",
            sections |-> IF has_field(ms, "sections") THEN the_field(ms, "sections")
                         ELSE <<>>,
            input_tokens |-> input[1].input_tokens,
            output_tokens |-> input[1].output_tokens,
            cost_usd |-> input[1].cost_usd])

\* the object {"title": "Partial Report"} parsed
W_C20_TitleOnly ==
    /\ output /= None
    /\ input[1].fn = "parse_narrative_response"
    /\ input[1].doc.content = <<LB, TitleA, RB>>
    /\ ~output[1].panic
    /\ output[1].value.title = "Partial Report"
    /\ output[1].value.executive_summary = "Analysis of economic indicators."
    /\ output[1].value.sections = <<>>

\* the bytes are whole characters: each first byte is followed by exactly
\* the bytes that belong to it
whole_chars(b) ==
    /\ b /= <<>> => b[1] > 0
    /\ \A i \in 1..Len(b) :
          b[i] > 0 => /\ i + b[i] - 1 <= Len(b)
                      /\ \A k \in (i + 1)..(i + b[i] - 1) : b[k] = 0
                      /\ (i + b[i] <= Len(b) => b[i + b[i]] > 0)

\* C15: truncate(S, N) is at most N bytes long, does not end inside a
\* character, and is S itself when S is at most N bytes long.
C15_TruncateWithinBudget ==
    output /= None =>
      /\ Len(output[1]) <= input[1].max
      /\ whole_chars(output[1])
      /\ Len(input[1].s) <= input[1].max => output[1] = input[1].s

\* the categories in their order of priority, each with what it looks for
Rules ==
    << [category |-> "rate_limit", looks_for |-> {"rate limit", "429"}],
       [category |-> "timeout",
        looks_for |-> {"timeout", "timed out", "deadline"}],
       [category |-> "auth_error",
        looks_for |-> {"401", "403", "auth", "api key"}],
       [category |-> "invalid_request", looks_for |-> {"400", "422", "invalid"}],
       [category |-> "server_error",
        looks_for |-> {"500", "502", "503", "server"}],
       [category |-> "network_error",
        looks_for |-> {"connect", "dns", "network", "reset"}] >>

\* the patterns a message holds, whatever the case of its letters
found_in(err) ==
    UNION { patterns_in(to_lowercase(err[i])) : i \in 1..Len(err) }

\* C16: classify_error gives every message exactly one of the seven
\* categories: the first, in the order rate_limit, timeout, auth_error,
\* invalid_request, server_error, network_error, one of whose patterns the
\* message holds, and unknown_error when it holds none.
C16_ClassifyByPriority ==
    output /= None =>
      LET hits == { k \in 1..Len(Rules) :
                      Rules[k].looks_for \cap found_in(input[1].err) /= {} }
      IN /\ output[1] \in { Rules[k].category : k \in 1..Len(Rules) }
                            \cup {"unknown_error"}
         /\ hits = {} => output[1] = "unknown_error"
         /\ hits /= {} => output[1] = Rules[SetMin(hits)].category

\* a message holding both 429 and server classified
W_C16_RateLimitOverServer ==
    /\ output = Some("rate_limit")
    /\ input[1].err = <<"SERVER", "429">>

\* C17: Validation is answered with 400, NotFound with 404, and Database,
\* Llm, Pipeline and Internal with 500 and the message "Internal server
\* error", whatever text the error carries.
C17_StatusByKind ==
    output /= None =>
      LET kind == input[1].err.kind
          resp == output[1]
      IN /\ kind = "Validation" => resp.status = 400
         /\ kind = "NotFound" => resp.status = 404
         /\ kind \in {"Database", "Llm", "Pipeline", "Internal"} =>
              /\ resp.status = 500
              /\ resp.body.error = <<"Internal server error">>
         /\ resp.body.status = resp.status
         /\ resp.status = 500 =>
              /\ kind \notin {"Validation", "NotFound"}
              /\ \A f \in DOMAIN resp.body :
                    f \in {"error", "status", "trace_id"}
              /\ (input[1].err.msg /= <<"Internal server error">>
                    => resp.body.error /= input[1].err.msg)

\* an Llm error with a provider's text answered
W_C17_LlmErrorHidden ==
    /\ output /= None
    /\ input[1].err = LlmError(<<"500 internal server error">>)
    /\ output[1].status = 500
    /\ output[1].body.error = <<"Internal server error">>

\* the body has no indicator, a date that is no date written
\* year-month-day, or a start date that is not before the end date
bad_body(b) ==
    \/ b.indicators = <<>>
    \/ b.start_date \notin {"2024-01-01", "2024-06-30"}
    \/ b.end_date \notin {"2024-01-01", "2024-06-30"}
    \/ b.start_date = b.end_date
    \/ (b.start_date = "2024-06-30" /\ b.end_date = "2024-01-01")

C19_StageModels ==
    \A i \in 1..Len(calls) :
        calls[i].role = "primary" =>
          calls[i].model = IF calls[i].stage = "analyze"
                           THEN config.llm_model_fast
                           ELSE config.llm_model_capable

------------------------------------------------------------------------------
(* The retry loop of generate_with_retry                                    *)

\* the step is a failed attempt: generate_once returned Err
FailedAttemptStep ==
    /\ Len(calls') = Len(calls) + 1
    /\ ~calls'[Len(calls')].ok

\* entry i of the call log is the first attempt of its generate_with_retry run
first_of_run(i) ==
    \/ i = 1
    \/ calls[i - 1].ok
    \/ calls[i - 1].role /= calls[i].role
    \/ calls[i - 1].stage /= calls[i].stage

\* C22: the retry counter goes up by one in a failed attempt that is not the
\* first of its run and in no other step, so it counts the failed attempts
\* that were retries: 2 when the 3 attempts of a run all failed.
C22_RetryCountedPerFailedRetry ==
    /\ [][retry_count' = retry_count +
            (IF FailedAttemptStep /\ attempt > 0 THEN 1 ELSE 0)]_vars
    /\ [](retry_count = Cardinality({ i \in 1..Len(calls) :
                                        ~calls[i].ok /\ ~first_of_run(i) }))
    /\ []((Len(calls) = 3 /\ \A i \in 1..3 : ~calls[i].ok) => retry_count = 2)

\* the three attempts of the first run failed
W_C22_ThreeFailuresTwoRetries ==
    /\ Len(calls) = 3
    /\ \A i \in 1..3 : ~calls[i].ok /\ calls[i].role = "primary"
    /\ retry_count = 2

\* C23: the loop sleeps only after a failed attempt a < 2, for a delay d with
\* base <= d <= base + base/4 where base is 1000 ms after the first failure
\* and 2000 ms after the second; after the last failure and after a success
\* there is no sleep.
C23_BackoffWithinJitter ==
    /\ cpc = "sleep" =>
         /\ attempt \in {0, 1}
         /\ ~calls[Len(calls)].ok
         /\ \E base \in {IF attempt = 0 THEN 1000 ELSE 2000} :
              /\ base = Min(Pow2(attempt) * 1000, 10000)
              /\ base <= delay
              /\ delay <= base + base \div 4
    /\ cpc /= "sleep" => delay = 0
    /\ cpc = "returned" => delay = 0
    /\ attempt = 2 => cpc /= "sleep"

\* the task sleeps after the second failure with the largest jitter
W_C23_SecondBackoff ==
    /\ cpc = "sleep"
    /\ attempt = 1
    /\ delay = 2500

\* the request the running stage built
stage_request ==
    IF stage = "analyze" THEN analyze_request(args[1].model_fast)
                         ELSE generate_request(args[1].model_capable)

\* C24: the fallback's request is the caller's request with the model
\* replaced by the client's fallback_model and nothing else changed; the
\* caller's request stays what the stage built, and every primary attempt is
\* given it as it is.
C24_FallbackRequestOnlyChangesModel ==
    cpc /= "idle" =>
      /\ orig_req = Some(stage_request)
      /\ cur = "primary" => req = orig_req
      /\ cur = "fallback" =>
           /\ req[1].model = client.fallback_model
           /\ \A f \in DOMAIN orig_req[1] \ {"model"} : req[1][f] = orig_req[1][f]
           /\ DOMAIN req[1] = DOMAIN orig_req[1]
      /\ \A i \in 1..Len(calls) :
           calls[i].stage = stage =>
             calls[i].model = IF calls[i].role = "primary"
                              THEN orig_req[1].model
                              ELSE client.fallback_model

\* the fallback was given a request whose model differs from the caller's
W_C24_FallbackAttempted ==
    /\ cur = "fallback"
    /\ req[1].model /= orig_req[1].model
    /\ calls /= <<>>
    /\ calls[Len(calls)].role = "fallback"

\* C25: a run stops at its first successful attempt and returns that
\* response, the provider is not invoked again after the return, and a run
\* whose 3 attempts failed returns the error of the third.
C25_StopsAtFirstSuccess ==
    /\ [](ReturnedOk =>
            /\ calls[Len(calls)].ok
            /\ Len(errs) = attempt
            /\ attempt < max_retries
            /\ \A i \in 1..attempt : ~calls[Len(calls) - i].ok
            /\ result[1].resp = generate_once_ok(raw[1], ProviderName(client, cur),
                                                 PRICING[1]))
    /\ [](ReturnedErr =>
            /\ Len(errs) = 3
            /\ \A i \in 0..2 : ~calls[Len(calls) - i].ok
            /\ IF cur = "primary" THEN primary_err = Some(errs[3])
                                  ELSE result[1].err = errs[3])
    /\ [][cpc = "returned" => calls' = calls]_vars

\* the third attempt succeeded after two failures
W_C25_ThirdAttemptSucceeds ==
    /\ ReturnedOk
    /\ attempt = 2
    /\ Len(errs) = 2

------------------------------------------------------------------------------
(* Database access of generate_report                                       *)

\* C26: the retrieval query and the report insert are issued at most once
\* each and never again after a failure; a failure of either is returned as
\* a Database error; a row is inserted only after the four stages produced
\* their results, and the report is returned only after its insert.
C26_DatabaseOnceAndLast ==
    /\ [][/\ query_result' /= query_result =>
               query_result = None /\ stage = "retrieve"
          /\ db_reports' /= db_reports =>
               db_reports = {} /\ stage = "persist" /\ stage' = "done"
          /\ stage \in {"failed", "done"} => stage' = stage]_vars
    /\ []((query_result /= None /\ ~query_result[1].ok) =>
            /\ stage = "failed"
            /\ outcome = Some([ok |-> FALSE, err |-> DatabaseError])
            /\ calls = <<>>
            /\ db_reports = {})
    /\ []((stage = "failed" /\ stages_run /= <<>>
             /\ stages_run[Len(stages_run)] = "persist") =>
            /\ outcome = Some([ok |-> FALSE, err |-> DatabaseError])
            /\ db_reports = {})
    /\ [](db_reports /= {} =>
            /\ stage = "done"
            /\ data /= None /\ analysis /= None /\ narrative /= None
            /\ report /= None
            /\ db_reports = {report[1]})
    /\ []((outcome /= None /\ outcome[1].ok) =>
            /\ outcome[1].val = report[1]
            /\ db_reports = {report[1]})

\* the four stages succeeded and the insert failed
W_C26_InsertFailed ==
    /\ stage = "failed"
    /\ report /= None
    /\ outcome = Some([ok |-> FALSE, err |-> DatabaseError])
    /\ db_reports = {}

------------------------------------------------------------------------------
(* The jobs table (axum-postgres jobs/queue.rs) and the worker that polls  *)
(* it (actix-postgres bin/worker.rs).  A statement is one step, except the *)
(* UPDATE of dequeue, which is two: its sub-select picks and locks a row   *)
(* (FOR UPDATE SKIP LOCKED), and the update of that row becomes visible    *)
(* and the lock is released when the statement's transaction commits.      *)
(* scheduled_at is left out: enqueue does not set it, so a row is taken to *)
(* be due from its insertion on.                                           *)

MaxJobs == 2

MaxAttemptsLimit == 2

Workers == 1..2

JobKinds == {"notification", "digest"}

Payloads == {"article"}

\* the column defaults of the jobs table: a new row is pending and has not
\* been attempted; its max_attempts is some positive number
JobDefaults == [status |-> "pending", attempts |-> 0]

\* the row INSERT INTO jobs (kind, payload, trace_context) creates: the
\* other columns take the table's defaults.  lock is the set of workers
\* whose transaction holds the row.
new_job(kind, payload, max) ==
    [kind |-> kind, payload |-> payload, status |-> JobDefaults.status,
     attempts |-> JobDefaults.attempts, max_attempts |-> max, lock |-> {}]

\* WHERE status = 'pending' AND scheduled_at <= NOW() AND attempts < max_attempts
eligible(j) == j.status = "pending" /\ j.attempts < j.max_attempts

\* a sub-select that does not skip locked rows
selectable_ignoring_lock(j) == eligible(j)

\* FOR UPDATE SKIP LOCKED: a row another transaction holds is passed over
selectable(j) == eligible(j) /\ j.lock = {}

\* a dequeue that leaves attempts alone
dequeue_update_keeps_attempts(j) ==
    [j EXCEPT !.status = "processing", !.lock = {}]

\* SET status = 'processing', started_at = NOW(), attempts = attempts + 1
dequeue_update(j) ==
    [j EXCEPT !.status = "processing", !.attempts = @ + 1, !.lock = {}]

\* SET status = 'completed', completed_at = NOW()
complete_update(j) == [j EXCEPT !.status = "completed"]

\* a fail that always hands the job back
fail_update_always_pending(j) == [j EXCEPT !.status = "pending"]

\* SET status = CASE WHEN attempts >= max_attempts THEN 'failed' ELSE 'pending' END
fail_update(j) ==
    [j EXCEPT !.status = IF j.attempts >= j.max_attempts THEN "failed"
                                                         ELSE "pending"]

\* the Job dequeue returns: RETURNING id, kind, payload, status, attempts
returned_job(id, j) ==
    [id |-> id, kind |-> j.kind, payload |-> j.payload, status |-> j.status,
     attempts |-> j.attempts]

\* the match of process_job on job.kind: NotificationHandler::handle fails
\* when the payload does not deserialize, any other kind is an error
handle(job) ==
    IF job.kind = "notification" THEN job.payload = "article" ELSE FALSE

IdleWorker == [pc |-> "idle", id |-> 0, job |-> None]

JobIds == 1..Len(jobs)

\* JobQueue::enqueue
Enqueue ==
    /\ Len(jobs) < MaxJobs
    /\ \E kind \in JobKinds, payload \in Payloads, max \in 1..MaxAttemptsLimit :
         /\ jobs' = Append(jobs, new_job(kind, payload, max))
         /\ input' = Some([op |-> "enqueue", id |-> Len(jobs) + 1])
         /\ output' = Some(Len(jobs) + 1)
    /\ UNCHANGED <<files, PRICING, lookup, client, config, pipeVars, callVars,
                   tasks, workers, deliveries, reliable, favVars>>

\* what the calls on the queue leave alone
queueFrame == <<files, PRICING, lookup, client, config, pipeVars, callVars,
                tasks, workers, reliable, favVars>>

\* JobQueue::dequeue called on its own: the whole statement
DequeueCall ==
    /\ input' = Some([op |-> "dequeue", id |-> 0])
    /\ IF \E id \in JobIds : selectable(jobs[id])
       THEN \E id \in { i \in JobIds : selectable(jobs[i]) } :
              /\ jobs' = [jobs EXCEPT ![id] = dequeue_update(@)]
              /\ output' = Some(returned_job(id, jobs'[id]))
              /\ deliveries' = deliveries (+)
                                 SetToBag({<<id, jobs'[id].attempts>>})
       ELSE /\ output' = None
            /\ UNCHANGED <<jobs, deliveries>>
    /\ UNCHANGED queueFrame

\* JobQueue::complete(job_id)
CompleteCall ==
    /\ \E id \in JobIds :
         /\ input' = Some([op |-> "complete", id |-> id])
         /\ jobs' = [jobs EXCEPT ![id] = complete_update(@)]
    /\ output' = None
    /\ UNCHANGED <<queueFrame, deliveries>>

\* JobQueue::fail(job_id, error)
FailCall ==
    /\ \E id \in JobIds :
         /\ input' = Some([op |-> "fail", id |-> id])
         /\ jobs' = [jobs EXCEPT ![id] = fail_update(@)]
    /\ output' = None
    /\ UNCHANGED <<queueFrame, deliveries>>

QueueInit ==
    /\ files = NoSource
    /\ config = DefaultConfig
    /\ IdleServer
    /\ input = None
    /\ output = None
    /\ NoTasks
    /\ NoJobs
    /\ NoFavorites

QueueNext ==
    \/ Enqueue
    \/ DequeueCall
    \/ CompleteCall
    \/ FailCall

QueueSpec == QueueInit /\ [][QueueNext]_vars

\* what a worker's steps leave alone
workerFrame == <<files, PRICING, lookup, input, output, client, config,
                 pipeVars, callVars, tasks, reliable, favVars>>

\* process_job, the sub-select of dequeue: worker w's transaction picks a
\* due pending row that no other transaction holds and locks it.  With no
\* such row the statement returns nothing and process_job returns Ok(()).
Select(w) ==
    /\ workers[w].pc = "idle"
    /\ \E id \in { i \in JobIds : selectable(jobs[i]) } :
         /\ jobs' = [jobs EXCEPT ![id].lock = {w}]
         /\ workers' = [workers EXCEPT ![w] = [pc |-> "selected", id |-> id,
                                               job |-> None]]
    /\ UNCHANGED <<workerFrame, deliveries>>

\* process_job, the rest of dequeue: the row is updated, the transaction
\* commits and the row is returned as the Job
Update(w) ==
    /\ workers[w].pc = "selected"
    /\ \E id \in {workers[w].id} :
         /\ jobs' = [jobs EXCEPT ![id] = dequeue_update(@)]
         /\ workers' = [workers EXCEPT ![w] =
                          [pc |-> "handling", id |-> id,
                           job |-> Some(returned_job(id, jobs'[id]))]]
         /\ deliveries' = deliveries (+) SetToBag({<<id, jobs'[id].attempts>>})
    /\ UNCHANGED workerFrame

\* process_job, from the match on job.kind to its end: the handler returns,
\* complete or fail is executed and process_job returns.  A statement that
\* fails leaves the row as it was, and process_job returns the error.
Finish(w) ==
    /\ workers[w].pc = "handling"
    /\ \E job \in {workers[w].job[1]}, executed \in {TRUE} \cup {reliable} :
         jobs' = IF ~executed THEN jobs
                 ELSE IF handle(job)
                      THEN [jobs EXCEPT ![job.id] = complete_update(@)]
                      ELSE [jobs EXCEPT ![job.id] = fail_update(@)]
    /\ workers' = [workers EXCEPT ![w] = IdleWorker]
    /\ UNCHANGED <<workerFrame, deliveries>>

\* one iteration of the worker loop's interval.tick() arm
WorkerStep(w) == Select(w) \/ Update(w) \/ Finish(w)

JobInit ==
    /\ files = NoSource
    /\ config = DefaultConfig
    /\ IdleServer
    /\ input = None
    /\ output = None
    /\ NoTasks
    /\ NoFavorites
    /\ jobs = <<>>
    /\ workers = [w \in Workers |-> IdleWorker]
    /\ deliveries = EmptyBag
    /\ reliable \in BOOLEAN

JobNext ==
    \/ Enqueue
    \/ \E w \in Workers : Select(w)
    \/ \E w \in Workers : Update(w)
    \/ \E w \in Workers : Finish(w)

JobSpec == JobInit /\ [][JobNext]_vars

\* the worker loop runs process_job at every tick for as long as the worker
\* runs
FairJobSpec == JobSpec /\ \A w \in Workers : WF_vars(WorkerStep(w))

\* the step is the call op on job id
IsCall(op, id) == input' = Some([op |-> op, id |-> id]) /\ Len(jobs') = Len(jobs)

\* number of times job id was handed out
handed(id) ==
    SumSeq([a \in 1..MaxAttemptsLimit + 1 |->
              CopiesIn(<<id, a>>, deliveries)])

\* C27: after any sequence of enqueue, dequeue, complete and fail every job
\* has attempts <= max_attempts; dequeue hands out only a pending job with
\* attempts < max_attempts and adds one to its attempts; fail sets failed
\* exactly when attempts >= max_attempts and pending otherwise; a job is
\* handed out at most max_attempts times.
C27_AttemptsBounded ==
    /\ [](\A id \in JobIds :
            /\ jobs[id].attempts <= jobs[id].max_attempts
            /\ handed(id) = jobs[id].attempts
            /\ handed(id) <= jobs[id].max_attempts)
    /\ [][IsCall("dequeue", 0) =>
            IF output' = None
            THEN jobs' = jobs
            ELSE \E id \in JobIds :
                   /\ output'[1].id = id
                   /\ jobs[id].status = "pending"
                   /\ jobs[id].attempts < jobs[id].max_attempts
                   /\ jobs'[id].attempts = jobs[id].attempts + 1
                   /\ jobs'[id].status = "processing"
                   /\ \A o \in JobIds \ {id} : jobs'[o] = jobs[o]]_vars
    /\ [][\A id \in JobIds :
            IsCall("fail", id) =>
              /\ jobs'[id].status = "failed"
                   <=> jobs[id].attempts >= jobs[id].max_attempts
              /\ jobs'[id].status = "pending"
                   <=> jobs[id].attempts < jobs[id].max_attempts
              /\ jobs'[id].attempts = jobs[id].attempts]_vars

\* a job was handed out as often as it may be and then marked failed
W_C27_FailedAtLimit ==
    \E id \in JobIds :
      /\ jobs[id].max_attempts = 2
      /\ jobs[id].attempts = 2
      /\ handed(id) = 2
      /\ jobs[id].status = "failed"
      /\ input = Some([op |-> "fail", id |-> id])

\* the workers handling job id
handlers_of(id) ==
    { w \in Workers : workers[w].pc = "handling" /\ workers[w].id = id }

\* C28: concurrent dequeues never hand a job to two workers for the same
\* attempt, never pick a job that is processing, and at most one worker
\* handles a job at a time.
C28_OneWorkerPerJob ==
    /\ \A d \in BagToSet(deliveries) : CopiesIn(d, deliveries) = 1
    /\ \A w \in Workers :
         workers[w].pc = "selected" =>
           /\ jobs[workers[w].id].status = "pending"
           /\ jobs[workers[w].id].lock = {w}
    /\ \A id \in JobIds :
         /\ Cardinality(handlers_of(id)) <= 1
         /\ handlers_of(id) /= {} => jobs[id].status = "processing"
         /\ handed(id) = jobs[id].attempts

\* both workers are in a dequeue at once, each holding a row of its own
W_C28_ConcurrentDequeues ==
    /\ workers[1].pc = "selected"
    /\ workers[2].pc = "selected"
    /\ workers[1].id /= workers[2].id

\* job id is held by a worker
processing(id) == id \in JobIds /\ jobs[id].status = "processing"

\* job id reached a final status
finished(id) == id \in JobIds /\ jobs[id].status \in {"completed", "failed"}

------------------------------------------------------------------------------
(* Favorites of one article (axum-postgres services/article.rs with        *)
(* repository/favorite.rs and repository/article.rs).  Each statement of   *)
(* favorite / unfavorite is a transaction of its own on the pool, so each  *)
(* is one step and the requests interleave between them.                   *)

MaxRequests == 3

Users == 1..2

Handlers == 1..2

IdleRequest == [pc |-> "idle", op |-> "none", user_id |-> 0]

\* INSERT INTO favorites .. ON CONFLICT (user_id, article_id) DO UPDATE:
\* the row is there afterwards, once
create(rows, user_id) == rows \cup {user_id}

\* SELECT EXISTS(SELECT 1 FROM favorites WHERE user_id = $1 AND article_id = $2)
exists(rows, user_id) == user_id \in rows

\* DELETE FROM favorites WHERE user_id = $1 AND article_id = $2
delete(rows, user_id) == rows \ {user_id}

\* favorites_count + 1
increment_favorites(count) == count + 1

\* GREATEST(favorites_count - 1, 0)
decrement_favorites(count) == IF count - 1 > 0 THEN count - 1 ELSE 0

favFrame == <<files, PRICING, lookup, input, output, client, config, pipeVars,
              callVars, tasks, jobVars>>

\* a favorite or unfavorite request arrives: find_by_slug found the article
StartRequest(h) ==
    /\ requests[h].pc = "idle"
    /\ served < MaxRequests
    /\ \E op \in {"favorite", "unfavorite"}, user_id \in Users :
         requests' = [requests EXCEPT ![h] =
                        [pc |-> IF op = "favorite" THEN "exists" ELSE "delete",
                         op |-> op, user_id |-> user_id]]
    /\ served' = served + 1
    /\ UNCHANGED <<favFrame, favorites_count, favorites>>

\* favorite: favorite_repo.exists(..) and the test of already_favorited;
\* when it is true the article is read and returned
Exists(h) ==
    /\ requests[h].pc = "exists"
    /\ requests' = [requests EXCEPT ![h] =
                      IF exists(favorites, requests[h].user_id)
                      THEN IdleRequest
                      ELSE [@ EXCEPT !.pc = "create"]]
    /\ UNCHANGED <<favFrame, favorites_count, favorites, served>>

\* favorite: favorite_repo.create(..)
Create(h) ==
    /\ requests[h].pc = "create"
    /\ favorites' = create(favorites, requests[h].user_id)
    /\ requests' = [requests EXCEPT ![h].pc = "increment"]
    /\ UNCHANGED <<favFrame, favorites_count, served>>

\* favorite: article_repo.increment_favorites(..), then the article is read
\* and returned
Increment(h) ==
    /\ requests[h].pc = "increment"
    /\ favorites_count' = increment_favorites(favorites_count)
    /\ requests' = [requests EXCEPT ![h] = IdleRequest]
    /\ UNCHANGED <<favFrame, favorites, served>>

\* unfavorite: favorite_repo.delete(..) and the test of was_favorited
Delete(h) ==
    /\ requests[h].pc = "delete"
    /\ favorites' = delete(favorites, requests[h].user_id)
    /\ requests' = [requests EXCEPT ![h] =
                      IF exists(favorites, requests[h].user_id)
                      THEN [@ EXCEPT !.pc = "decrement"]
                      ELSE IdleRequest]
    /\ UNCHANGED <<favFrame, favorites_count, served>>

\* unfavorite: article_repo.decrement_favorites(..), then the article is
\* read and returned
Decrement(h) ==
    /\ requests[h].pc = "decrement"
    /\ favorites_count' = decrement_favorites(favorites_count)
    /\ requests' = [requests EXCEPT ![h] = IdleRequest]
    /\ UNCHANGED <<favFrame, favorites, served>>

FavoriteInit ==
    /\ files = NoSource
    /\ config = DefaultConfig
    /\ IdleServer
    /\ input = None
    /\ output = None
    /\ NoTasks
    /\ NoJobs
    /\ favorites_count = 0
    /\ favorites = {}
    /\ requests = [h \in Handlers |-> IdleRequest]
    /\ served = 0

FavoriteNext ==
    \/ \E h \in Handlers : StartRequest(h)
    \/ \E h \in Handlers : Exists(h)
    \/ \E h \in Handlers : Create(h)
    \/ \E h \in Handlers : Increment(h)
    \/ \E h \in Handlers : Delete(h)
    \/ \E h \in Handlers : Decrement(h)

FavoriteSpec == FavoriteInit /\ [][FavoriteNext]_vars

\* every request has returned
Quiescent == \A h \in Handlers : requests[h].pc = "idle"

\* C30: once the favorite and unfavorite calls that ran concurrently have
\* returned, favorites_count equals the number of favorites rows of the
\* article, and it is never negative.
C30_CountMatchesRows ==
    /\ favorites_count >= 0
    /\ Quiescent => favorites_count = Cardinality(favorites)

------------------------------------------------------------------------------
(* Several generate calls at once on the one LlmClient of AppState.  A     *)
(* call's locals (attempt, last_err, the provider it drives) live in its   *)
(* own future; the client is borrowed as &self.  What the providers answer *)
(* to a call is fixed per call: primary_failures / fallback_failures is    *)
(* the number of attempts of the call that provider fails before it        *)
(* answers (max_retries: it fails them all).                               *)

Tasks == 1..2

Failures == {0, 1, max_retries}

Scripts == [primary_failures : Failures, fallback_failures : Failures]

NewTask(script) ==
    [pc |-> "attempt", cur |-> "primary", attempt |-> 0, script |-> script,
     made |-> [primary |-> 0, fallback |-> 0], result |-> None]

\* an attempt counter kept in the client, shared by the calls in flight
loop_var_shared(ts, t) == SetMax({ ts[u].attempt : u \in DOMAIN ts })

\* for attempt in 0..max_retries: the loop variable of call t's own
\* generate_with_retry
loop_var(ts, t) == ts[t].attempt

\* whether the provider fails the attempt call k is about to make
fails(k) ==
    k.made[k.cur] < (IF k.cur = "primary" THEN k.script.primary_failures
                                          ELSE k.script.fallback_failures)

sharedFrame == <<files, PRICING, lookup, input, output, client, config,
                 pipeVars, cpc, cur, attempt, req, orig_req, last_err, delay,
                 raw, result, calls, errs, primary_err, jobVars, favVars>>

\* one generate_once of call t and what generate_with_retry and generate do
\* with its result
TaskAttempt(t) ==
    /\ tasks[t].pc = "attempt"
    /\ \E k \in {tasks[t]}, a \in {loop_var(tasks, t)} :
       \E made \in {[k.made EXCEPT ![k.cur] = @ + 1]} :
         IF ~fails(k)
         THEN /\ tasks' = [tasks EXCEPT ![t] =
                   [k EXCEPT !.pc = "returned", !.made = made,
                             !.result = Some([ok |-> TRUE,
                                 provider |-> ProviderName(client, k.cur)])]]
              /\ UNCHANGED <<retry_count, fallback_count>>
         ELSE /\ retry_count' = IF counts_as_retry(a) THEN retry_count + 1
                                                      ELSE retry_count
              /\ IF sleeps_after(a)
                 THEN /\ tasks' = [tasks EXCEPT ![t] =
                           [k EXCEPT !.pc = "sleep", !.made = made]]
                      /\ UNCHANGED fallback_count
                 ELSE IF k.cur = "primary" /\ runs_fallback(client)
                 THEN /\ tasks' = [tasks EXCEPT ![t] =
                           [k EXCEPT !.cur = "fallback", !.attempt = 0,
                                     !.made = made]]
                      /\ fallback_count' = fallback_count + 1
                 ELSE /\ tasks' = [tasks EXCEPT ![t] =
                           [k EXCEPT !.pc = "returned", !.made = made,
                                     !.result = Some([ok |-> FALSE,
                                         provider |-> ProviderName(client, k.cur)])]]
                      /\ UNCHANGED fallback_count
    /\ UNCHANGED sharedFrame

\* the sleep of call t is over
TaskWake(t) ==
    /\ tasks[t].pc = "sleep"
    /\ tasks' = [tasks EXCEPT ![t].pc = "attempt", ![t].attempt = @ + 1]
    /\ UNCHANGED <<sharedFrame, retry_count, fallback_count>>

SharedInit ==
    /\ files = NoSource
    /\ config \in Configs
    /\ IdleServer
    /\ input = None
    /\ output = None
    /\ NoJobs
    /\ NoFavorites
    /\ tasks \in [Tasks -> { NewTask(sc) : sc \in Scripts }]

SharedNext ==
    \/ \E t \in Tasks : TaskAttempt(t)
    \/ \E t \in Tasks : TaskWake(t)

SharedSpec == SharedInit /\ [][SharedNext]_vars

\* what a call with script sc gives when it runs alone on client c
alone(sc, c) ==
    [made |-> [primary |-> Min(sc.primary_failures + 1, 3),
               fallback |-> IF sc.primary_failures >= 3 /\ c.fallback
                            THEN Min(sc.fallback_failures + 1, 3) ELSE 0],
     result |-> IF sc.primary_failures < 3
                THEN Some([ok |-> TRUE, provider |-> c.primary_provider])
                ELSE IF ~c.fallback
                THEN Some([ok |-> FALSE, provider |-> c.primary_provider])
                ELSE Some([ok |-> sc.fallback_failures < 3,
                           provider |-> c.fallback_provider])]

\* C21: concurrent generate calls on one shared client never modify its
\* bindings, a step of one call changes no other call's locals, and every
\* call makes the attempts, picks the provider and returns the result it
\* would have alone, whatever the other calls' failures and retries are.
C21_CallsDoNotInterfere ==
    /\ [][client' = client]_vars
    /\ [][\A t \in DOMAIN tasks : \A u \in DOMAIN tasks \ {t} :
            tasks'[t] /= tasks[t] => tasks'[u] = tasks[u]]_vars
    /\ [](\A t \in DOMAIN tasks :
            /\ tasks[t].made.primary <= max_retries
            /\ tasks[t].made.fallback <= max_retries
            /\ tasks[t].pc = "returned" =>
                 /\ tasks[t].made = alone(tasks[t].script, client).made
                 /\ tasks[t].result = alone(tasks[t].script, client).result)

\* one call used up both budgets while the other was answered at once
W_C21_OneFailsOtherSucceeds ==
    /\ tasks /= <<>>
    /\ tasks[1].pc = "returned" /\ ~tasks[1].result[1].ok
    /\ tasks[1].made = [primary |-> 3, fallback |-> 3]
    /\ tasks[2].pc = "returned" /\ tasks[2].result[1].ok
    /\ tasks[2].made = [primary |-> 1, fallback |-> 0]
    /\ retry_count = 4

====
